---- MODULE Spec2Model ----
(***************************************************************************)
(* Provider adapters (src/src/api/*.py) and the session controller         *)
(* (src/src/main.py) of the Chat LLM application.                          *)
(*                                                                         *)
(* An adapter instance is a record; every adapter method is an operator    *)
(* that maps the instance and the outcomes of the network calls it makes   *)
(* to the instance afterwards, the way the call ends (res), the value it   *)
(* returns (ret) and the events it produced, in order (ev).                *)
(***************************************************************************)
EXTENDS Integers, Sequences, FiniteSets, TLC

\* ---------------------------------------------------------------- bounds
MaxInst == 3      \* adapter instances constructed in one run
MaxMsgs == 3      \* length of the conversation
MaxLines == 3     \* lines of one streamed response
MaxNames == 3     \* models an Ollama server lists

\* ------------------------------------------------------------ data model
ProviderType == {"mistral", "gemini", "deepseek", "lm_studio", "ollama"}

\* providers for which render_sidebar asks for an API key
KeyProviders == {"mistral", "gemini", "deepseek"}

Prompts == {"p", "q"}
ReplyText == "r"

Message(role, content) == [role |-> role, content |-> content]

\* the message validate_credentials sends
TestMessage == <<Message("user", "Test de connexion")>>

\* what a backend answers to a completion request: a status with the text
\* of the body and, when the body is JSON, the document; kind "transport"
\* stands for a request that failed before any answer came
Answer(kind, status, body, doc) ==
    [kind |-> kind, status |-> status, body |-> body, doc |-> doc]

\* the documents of the answers with status 200, text being the reply
MistralDoc(text) ==
    [choices |-> <<[message |-> [role |-> "assistant", content |-> text]]>>]
GeminiDoc(text) ==
    [candidates |->
        <<[content |-> [role |-> "model", parts |-> <<[text |-> text]>>]]>>]
LMStudioDoc(text) ==
    [choices |-> <<[message |-> [role |-> "assistant", content |-> text]]>>]
OllamaDoc(text) == [message |-> [role |-> "assistant", content |-> text]]

\* documents without the reply: none of the fields, or the fields empty
NoFieldDoc == [error |-> "x"]
EmptyFieldDoc ==
    [choices |-> <<>>, candidates |-> <<>>, message |-> [role |-> "assistant"]]

Unauthorized == Answer("answer", "401", "unauthorized", NoFieldDoc)

\* the answers of a request that does not succeed
Failures ==
    {Unauthorized,
     Answer("answer", "500", "overloaded", NoFieldDoc),
     Answer("transport", "", "", NoFieldDoc),
     Answer("answer", "200", "", NoFieldDoc),
     Answer("answer", "200", "", EmptyFieldDoc)}

\* outcomes of the network calls one adapter method can make:
\*   post   the completion request of the call itself answers 200 with a reply
\*   test   the completion request of the credential test answers 200 with
\*          a reply
\*   probe  the reachability request of a local server answers 200
\*   show   the model-presence request of Ollama answers 200
\*   sclose closing the HTTP session returns normally
\*   fail   the answer to the completion request that does not succeed
Outcomes == [post : BOOLEAN, test : BOOLEAN, probe : BOOLEAN,
             show : BOOLEAN, sclose : BOOLEAN, fail : Failures]

\* how a call ends: msg is the message of the error raised, in its parts;
\* reqs the bodies of the completion requests sent, in order
Result(a, res, ret, ev) ==
    [a |-> a, res |-> res, ret |-> ret, ev |-> ev, msg |-> <<>>,
     reqs |-> <<>>]

\* raise kind(msg)
Raised(a, kind, msg, ev) == [Result(a, kind, "None", ev) EXCEPT !.msg = msg]

\* ClientSession.close(): when it raises, the caller's next statement
\* (self.session = None) is skipped and the session stays open
SessionClose(a, o) ==
    IF o.sclose
    THEN Result(a, "ok", "None", <<"session_close">>)
    ELSE Raised(a, "Exception", <<"session close failed">>,
                <<"session_close">>)

\* the call r, after the events ev of what ran before it
Prepend(ev, r) == [r EXCEPT !.ev = ev \o @]

\* the call r, made after the call first has ended
Following(first, r) ==
    [r EXCEPT !.ev = first.ev \o @, !.reqs = first.reqs \o @]

\* inside initialize the outcome of the request is that of the credential test
TestOutcome(o) == [o EXCEPT !.post = o.test]

\* a line of a streamed body, by what decoding it gives:
\*   bytes   not UTF-8: line.decode raises UnicodeDecodeError
\*   text    UTF-8 that is not JSON: json.loads raises JSONDecodeError
\*   scalar  JSON that is not an object (null, a number, an array)
\*   object  a JSON object, doc
Line(kind, doc) == [kind |-> kind, doc |-> doc]

\* what one line does to the stream: the fragments it yields, and whether
\* it raises out of the loop
Yields(out) == [out |-> out, abort |-> FALSE]
Aborts == [out |-> <<>>, abort |-> TRUE]

\* how a generator ends: out the fragments yielded, res "ok" when it is
\* exhausted or the error it raised, reqs the requests it sent
Streamed(res, out, msg, ev, reqs) ==
    [res |-> res, out |-> out, msg |-> msg, ev |-> ev, reqs |-> reqs]

\* ------------------------------------------------------- MistralProvider
RECURSIVE Mistral_chat_completion(_, _, _)
RECURSIVE Mistral_stream_lines(_, _, _)

\* lines 179-206, r is the call of chat_completion: any error is raised
\* again as APIError
Mistral_validate_credentials_end(r) ==
    IF r.res = "ok"
    THEN [r EXCEPT !.ret = "True"]
    ELSE [r EXCEPT !.res = "APIError", !.ret = "None",
                   !.msg = <<"Validation des credentials échouée: ">> \o @]

Mistral_validate_credentials(a, o) ==
    Mistral_validate_credentials_end(Mistral_chat_completion(a, TestMessage, o))

\* lines 65-69: the except clause of initialize, v is the call of
\* validate_credentials that raised, c the call of session.close()
Mistral_initialize_except(v, c) ==
    IF c.res = "ok"
    THEN [c EXCEPT !.a.session = "none", !.res = "APIError", !.ret = "None",
                   !.msg = <<"Erreur d'initialisation Mistral: ">> \o v.msg]
    ELSE c

\* lines 64-69, v is the call of validate_credentials
Mistral_initialize_end(v, o) ==
    IF v.res = "ok"
    THEN [v EXCEPT !.ret = "None"]
    ELSE IF v.a.session # "none"
         THEN Mistral_initialize_except(v, Following(v, SessionClose(v.a, o)))
         ELSE [v EXCEPT !.res = "APIError", !.ret = "None",
                        !.msg = <<"Erreur d'initialisation Mistral: ">> \o @]

\* lines 48-69: the session is created when there is none
Mistral_initialize(a, o) ==
    Prepend(IF a.session = "none" THEN <<"initialize", "session_open">>
                                  ELSE <<"initialize">>,
            Mistral_initialize_end(
                Mistral_validate_credentials([a EXCEPT !.session = "open"],
                                             TestOutcome(o)),
                o))

\* lines 99-112: the body of the request
Mistral_format(msgs) ==
    [messages |-> [k \in 1..Len(msgs) |->
                      [role |-> msgs[k].role, content |-> msgs[k].content]]]

\* line 129: data["choices"][0]["message"]["content"] can be evaluated
Mistral_has_content(data) ==
    /\ "choices" \in DOMAIN data
    /\ Len(data.choices) >= 1
    /\ "message" \in DOMAIN data.choices[1]
    /\ "content" \in DOMAIN data.choices[1].message

\* mutant: the error of a non-200 answer tells the status only
Mistral_response_nobody(a, answer) ==
    IF answer.kind = "transport"
    THEN Raised(a, "APIError",
                <<"Erreur de communication avec Mistral: ", "connection reset">>,
                <<"post_chat">>)
    ELSE IF answer.status # "200"
    THEN Raised(a, "APIError",
                <<"Erreur inattendue: ", "Erreur Mistral (", answer.status,
                  ")">>,
                <<"post_chat">>)
    ELSE IF ~Mistral_has_content(answer.doc)
    THEN Raised(a, "APIError", <<"Erreur inattendue: ", "lookup failed">>,
                <<"post_chat">>)
    ELSE Result(a, "ok", answer.doc.choices[1].message.content,
                <<"post_chat">>)

\* lines 121-134: what chat_completion does with the answer
Mistral_response(a, answer) ==
    IF answer.kind = "transport"
    THEN Raised(a, "APIError",
                <<"Erreur de communication avec Mistral: ", "connection reset">>,
                <<"post_chat">>)
    ELSE IF answer.status # "200"
    THEN Raised(a, "APIError",
                <<"Erreur inattendue: ", "Erreur Mistral (", answer.status,
                  "): ", answer.body>>,
                <<"post_chat">>)
    ELSE IF ~Mistral_has_content(answer.doc)
    THEN Raised(a, "APIError", <<"Erreur inattendue: ", "lookup failed">>,
                <<"post_chat">>)
    ELSE Result(a, "ok", answer.doc.choices[1].message.content,
                <<"post_chat">>)

\* lines 97-134: the request, on the session of the instance
Mistral_request(a, msgs, o) ==
    [Mistral_response(a, IF o.post
                         THEN Answer("answer", "200", "", MistralDoc(ReplyText))
                         ELSE o.fail)
        EXCEPT !.reqs = <<Mistral_format(msgs)>>]

\* mutant: the request is sent a second time
Mistral_chat_completion_end_twice(i, msgs, o) ==
    IF i.res # "ok"
    THEN i
    ELSE Following(Following(i, Mistral_request(i.a, msgs, o)),
                   Mistral_request(i.a, msgs, o))

\* lines 94-134, i is the call of initialize: its error leaves
\* chat_completion as it is
Mistral_chat_completion_end(i, msgs, o) ==
    IF i.res # "ok"
    THEN i
    ELSE Following(i, Mistral_request(i.a, msgs, o))

Mistral_chat_completion(a, msgs, o) ==
    IF a.session = "none"
    THEN Mistral_chat_completion_end(Mistral_initialize(a, o), msgs, o)
    ELSE Mistral_request(a, msgs, o)

\* lines 147-148 of _stream_response: the request of a streamed completion
Mistral_stream_params(msgs) ==
    [messages |-> Mistral_format(msgs).messages, stream |-> TRUE]

\* lines 160-168 of _stream_response: one line of the body
Mistral_stream_line(line) ==
    CASE line.kind = "bytes"  -> Aborts
      [] line.kind = "text"   -> Yields(<<>>)
      [] line.kind = "scalar" -> Aborts
      [] OTHER ->
           IF "choices" \notin DOMAIN line.doc
           THEN Yields(<<>>)
           ELSE IF Len(line.doc.choices) = 0
           THEN Aborts
           ELSE IF /\ "delta" \in DOMAIN line.doc.choices[1]
                   /\ "content" \in DOMAIN line.doc.choices[1].delta
                   /\ line.doc.choices[1].delta.content # ""
           THEN Yields(<<line.doc.choices[1].delta.content>>)
           ELSE Yields(<<>>)

\* lines 159-177: the loop over the lines of the body, from line k on
Mistral_stream_lines(lines, k, out) ==
    IF k > Len(lines)
    THEN Streamed("ok", out, <<>>, <<"post_stream">>, <<>>)
    ELSE IF Mistral_stream_line(lines[k]).abort
    THEN Streamed("APIError", out,
                  <<"Erreur inattendue pendant le streaming: ",
                    "line failed">>, <<"post_stream">>, <<>>)
    ELSE Mistral_stream_lines(
             lines, k + 1, out \o Mistral_stream_line(lines[k]).out)

\* lines 136-177: the body of the generator, run when it is first consumed
\* on the instance as it is then
Mistral_stream_response(a, params, answer, lines) ==
    IF a.session = "none"
    THEN Streamed("APIError", <<>>,
                  <<"Erreur inattendue pendant le streaming: ",
                    "no session">>, <<>>, <<>>)
    ELSE IF answer.kind = "transport"
    THEN Streamed("APIError", <<>>,
                  <<"Erreur de streaming: ", "connection reset">>,
                  <<"post_stream">>, <<params>>)
    ELSE IF answer.status # "200"
    THEN Streamed("APIError", <<>>,
                  <<"Erreur inattendue pendant le streaming: ",
                    "Erreur de streaming Mistral (", answer.status, "): ",
                    answer.body>>,
                  <<"post_stream">>, <<params>>)
    ELSE [Mistral_stream_lines(lines, 1, <<>>) EXCEPT !.reqs = <<params>>]

\* lines 117-119, i is the call of initialize: with stream the generator is
\* returned, its body not yet run
Mistral_chat_completion_stream_end(i) ==
    IF i.res # "ok"
    THEN i
    ELSE Following(i, Result(i.a, "ok", "generator", <<>>))

\* mutant: with stream the request is sent before the generator is returned
Mistral_chat_completion_stream_eager(a, msgs, o) ==
    IF a.session = "none"
    THEN Mistral_chat_completion_stream_end(Mistral_initialize(a, o))
    ELSE [Result(a, "ok", "generator", <<"post_stream">>)
            EXCEPT !.reqs = <<Mistral_stream_params(msgs)>>]

\* lines 94-119: chat_completion(messages, stream=True)
Mistral_chat_completion_stream(a, msgs, o) ==
    IF a.session = "none"
    THEN Mistral_chat_completion_stream_end(Mistral_initialize(a, o))
    ELSE Result(a, "ok", "generator", <<>>)

\* lines 211-212, c is the call of session.close()
Mistral_close_end(c) ==
    IF c.res = "ok"
    THEN Result([c.a EXCEPT !.session = "none"], "ok", "None", c.ev)
    ELSE c

\* mutant: the session is closed but the instance keeps it
Mistral_close_keep(a, o) ==
    IF a.session # "none"
    THEN SessionClose(a, o)
    ELSE Result(a, "ok", "None", <<>>)

Mistral_close(a, o) ==
    IF a.session # "none"
    THEN Mistral_close_end(SessionClose(a, o))
    ELSE Result(a, "ok", "None", <<>>)

\* -------------------------------------------------------- GeminiProvider
RECURSIVE Gemini_chat_completion(_, _, _)
RECURSIVE Gemini_stream_lines(_, _, _)

\* lines 180-207, r is the call of chat_completion
Gemini_validate_credentials_end(r) ==
    IF r.res = "ok"
    THEN [r EXCEPT !.ret = "True"]
    ELSE [r EXCEPT !.res = "APIError", !.ret = "None",
                   !.msg = <<"Validation des credentials échouée: ">> \o @]

Gemini_validate_credentials(a, o) ==
    Gemini_validate_credentials_end(Gemini_chat_completion(a, TestMessage, o))

\* lines 62-66: the except clause of initialize, v is the call of
\* validate_credentials that raised, c the call of session.close()
Gemini_initialize_except(v, c) ==
    IF c.res = "ok"
    THEN [c EXCEPT !.a.session = "none", !.res = "APIError", !.ret = "None",
                   !.msg = <<"Erreur d'initialisation Gemini: ">> \o v.msg]
    ELSE c

\* lines 61-66, v is the call of validate_credentials
Gemini_initialize_end(v, o) ==
    IF v.res = "ok"
    THEN [v EXCEPT !.ret = "None"]
    ELSE IF v.a.session # "none"
         THEN Gemini_initialize_except(v, Following(v, SessionClose(v.a, o)))
         ELSE [v EXCEPT !.res = "APIError", !.ret = "None",
                        !.msg = <<"Erreur d'initialisation Gemini: ">> \o @]

Gemini_initialize(a, o) ==
    Prepend(IF a.session = "none" THEN <<"initialize", "session_open">>
                                  ELSE <<"initialize">>,
            Gemini_initialize_end(
                Gemini_validate_credentials([a EXCEPT !.session = "open"],
                                            TestOutcome(o)),
                o))

\* mutant: the roles are sent as they are
Gemini_format_keep(msgs) ==
    [contents |-> [k \in 1..Len(msgs) |->
                      [role |-> msgs[k].role,
                       parts |-> <<[text |-> msgs[k].content]>>]]]

\* lines 96-110: the body of the request
Gemini_format(msgs) ==
    [contents |-> [k \in 1..Len(msgs) |->
                      [role |-> IF msgs[k].role = "user" THEN "user"
                                                         ELSE "model",
                       parts |-> <<[text |-> msgs[k].content]>>]]]

\* line 126: data.get("candidates") is not empty
Gemini_has_candidates(data) ==
    /\ "candidates" \in DOMAIN data
    /\ Len(data.candidates) >= 1

\* line 129: data["candidates"][0]["content"]["parts"][0]["text"] can be
\* evaluated
Gemini_has_text(data) ==
    /\ "content" \in DOMAIN data.candidates[1]
    /\ "parts" \in DOMAIN data.candidates[1].content
    /\ Len(data.candidates[1].content.parts) >= 1
    /\ "text" \in DOMAIN data.candidates[1].content.parts[1]

\* lines 118-134: what chat_completion does with the answer
Gemini_response(a, answer) ==
    IF answer.kind = "transport"
    THEN Raised(a, "APIError",
                <<"Erreur de communication avec Gemini: ", "connection reset">>,
                <<"post_chat">>)
    ELSE IF answer.status # "200"
    THEN Raised(a, "APIError",
                <<"Erreur inattendue: ", "Erreur Gemini (", answer.status,
                  "): ", answer.body>>,
                <<"post_chat">>)
    ELSE IF ~Gemini_has_candidates(answer.doc)
    THEN Raised(a, "APIError",
                <<"Erreur inattendue: ", "Pas de réponse générée">>,
                <<"post_chat">>)
    ELSE IF ~Gemini_has_text(answer.doc)
    THEN Raised(a, "APIError", <<"Erreur inattendue: ", "lookup failed">>,
                <<"post_chat">>)
    ELSE Result(a, "ok", answer.doc.candidates[1].content.parts[1].text,
                <<"post_chat">>)

\* lines 94-134: the request, on the session of the instance
Gemini_request(a, msgs, o) ==
    [Gemini_response(a, IF o.post
                        THEN Answer("answer", "200", "", GeminiDoc(ReplyText))
                        ELSE o.fail)
        EXCEPT !.reqs = <<Gemini_format(msgs)>>]

\* lines 91-134, i is the call of initialize
Gemini_chat_completion_end(i, msgs, o) ==
    IF i.res # "ok"
    THEN i
    ELSE Following(i, Gemini_request(i.a, msgs, o))

\* mutant: the request is sent without looking at the session
Gemini_chat_completion_noinit(a, msgs, o) ==
    Gemini_request(a, msgs, o)

Gemini_chat_completion(a, msgs, o) ==
    IF a.session = "none"
    THEN Gemini_chat_completion_end(Gemini_initialize(a, o), msgs, o)
    ELSE Gemini_request(a, msgs, o)

\* line 154 of _stream_response: the request of a streamed completion
Gemini_stream_params(msgs) ==
    [contents |-> Gemini_format(msgs).contents,
     streamGenerationConfig |-> [streamType |-> "tokens"]]

\* lines 165-173 of _stream_response: one line of the body
Gemini_stream_line(line) ==
    CASE line.kind = "bytes"  -> Aborts
      [] line.kind = "text"   -> Yields(<<>>)
      [] line.kind = "scalar" -> Aborts
      [] OTHER ->
           IF /\ "candidates" \in DOMAIN line.doc
              /\ Len(line.doc.candidates) >= 1
              /\ "content" \in DOMAIN line.doc.candidates[1]
              /\ "parts" \in DOMAIN line.doc.candidates[1].content
              /\ Len(line.doc.candidates[1].content.parts) >= 1
              /\ "text" \in DOMAIN line.doc.candidates[1].content.parts[1]
              /\ line.doc.candidates[1].content.parts[1].text # ""
           THEN Yields(<<line.doc.candidates[1].content.parts[1].text>>)
           ELSE Yields(<<>>)

\* lines 164-178: the loop over the lines of the body, from line k on
Gemini_stream_lines(lines, k, out) ==
    IF k > Len(lines)
    THEN Streamed("ok", out, <<>>, <<"post_stream">>, <<>>)
    ELSE IF Gemini_stream_line(lines[k]).abort
    THEN Streamed("APIError", out,
                  <<"Erreur inattendue pendant le streaming: ",
                    "line failed">>, <<"post_stream">>, <<>>)
    ELSE Gemini_stream_lines(
             lines, k + 1, out \o Gemini_stream_line(lines[k]).out)

\* lines 136-178: the body of the generator, run when it is first consumed
\* on the instance as it is then
Gemini_stream_response(a, params, answer, lines) ==
    IF a.session = "none"
    THEN Streamed("APIError", <<>>,
                  <<"Erreur inattendue pendant le streaming: ",
                    "no session">>, <<>>, <<>>)
    ELSE IF answer.kind = "transport"
    THEN Streamed("APIError", <<>>,
                  <<"Erreur de streaming: ", "connection reset">>,
                  <<"post_stream">>, <<params>>)
    ELSE IF answer.status # "200"
    THEN Streamed("APIError", <<>>,
                  <<"Erreur inattendue pendant le streaming: ",
                    "Erreur de streaming Gemini (", answer.status, "): ",
                    answer.body>>,
                  <<"post_stream">>, <<params>>)
    ELSE [Gemini_stream_lines(lines, 1, <<>>) EXCEPT !.reqs = <<params>>]

\* lines 115-116, i is the call of initialize: with stream the generator is
\* returned, its body not yet run
Gemini_chat_completion_stream_end(i) ==
    IF i.res # "ok"
    THEN i
    ELSE Following(i, Result(i.a, "ok", "generator", <<>>))

\* lines 94-116: chat_completion(messages, stream=True)
Gemini_chat_completion_stream(a, msgs, o) ==
    IF a.session = "none"
    THEN Gemini_chat_completion_stream_end(Gemini_initialize(a, o))
    ELSE Result(a, "ok", "generator", <<>>)

\* lines 212-213, c is the call of session.close()
Gemini_close_end(c) ==
    IF c.res = "ok"
    THEN Result([c.a EXCEPT !.session = "none"], "ok", "None", c.ev)
    ELSE c

Gemini_close(a, o) ==
    IF a.session # "none"
    THEN Gemini_close_end(SessionClose(a, o))
    ELSE Result(a, "ok", "None", <<>>)

\* ------------------------------------------------------ LMStudioProvider
\* the sessions of the local-server adapters are scoped to one request
\* (async with aiohttp.ClientSession()); the instance never holds one
LMStudio_close(a, o) == Result(a, "ok", "None", <<>>)

LMStudio_initialize(a, o) ==
    IF o.probe
    THEN Result(a, "ok", "None", <<"initialize", "get_models">>)
    ELSE Raised(a, "APIError",
                <<"Erreur d'initialisation LM Studio: ", "probe failed">>,
                <<"initialize", "get_models">>)

\* lines 71-76: the messages of the request
LMStudio_format(msgs) ==
    [messages |-> [k \in 1..Len(msgs) |->
                      [role |-> msgs[k].role, content |-> msgs[k].content]]]

\* line 100: data["choices"][0]["message"]["content"] can be evaluated
LMStudio_has_content(data) ==
    /\ "choices" \in DOMAIN data
    /\ Len(data.choices) >= 1
    /\ "message" \in DOMAIN data.choices[1]
    /\ "content" \in DOMAIN data.choices[1].message

\* lines 89-103: what chat_completion does with the answer
LMStudio_response(a, answer) ==
    IF answer.kind = "transport"
    THEN Raised(a, "APIError",
                <<"Erreur lors de la génération: ", "connection reset">>,
                <<"post_chat">>)
    ELSE IF answer.status # "200"
    THEN Raised(a, "APIError",
                <<"Erreur lors de la génération: ", "Erreur LM Studio: ",
                  answer.status, " - ", answer.body>>,
                <<"post_chat">>)
    ELSE IF ~LMStudio_has_content(answer.doc)
    THEN Raised(a, "APIError",
                <<"Erreur lors de la génération: ", "lookup failed">>,
                <<"post_chat">>)
    ELSE Result(a, "ok", answer.doc.choices[1].message.content,
                <<"post_chat">>)

\* lines 78-103: the request, on a session of its own
LMStudio_request(a, msgs, o) ==
    [LMStudio_response(a, IF o.post
                          THEN Answer("answer", "200", "",
                                      LMStudioDoc(ReplyText))
                          ELSE o.fail)
        EXCEPT !.reqs = <<LMStudio_format(msgs)>>]

\* lines 67-103
LMStudio_chat_completion(a, msgs, o) ==
    IF msgs = <<>>
    THEN Raised(a, "ValidationError",
                <<"La liste des messages ne peut pas être vide">>, <<>>)
    ELSE LMStudio_request(a, msgs, o)

\* lines 67-103: chat_completion(messages, stream=True); the request says
\* "stream": False (line 85) whatever the parameter says
LMStudio_chat_completion_stream(a, msgs, o) ==
    LMStudio_chat_completion(a, msgs, o)

\* mutant: the error of initialize is not caught
LMStudio_validate_credentials_end_raise(i) ==
    IF i.res = "ok"
    THEN Result(i.a, "ok", "True", i.ev)
    ELSE i

\* lines 112-116, i is the call of initialize: True, or False on any error
LMStudio_validate_credentials_end(i) ==
    IF i.res = "ok"
    THEN Result(i.a, "ok", "True", i.ev)
    ELSE Result(i.a, "ok", "False", i.ev)

LMStudio_validate_credentials(a, o) ==
    LMStudio_validate_credentials_end(LMStudio_initialize(a, o))

\* -------------------------------------------------------- OllamaProvider
Ollama_close(a, o) == Result(a, "ok", "None", <<>>)

Ollama_initialize(a, o) ==
    IF ~o.probe
    THEN Raised(a, "APIError",
                <<"Erreur d'initialisation Ollama: ",
                  "Impossible de se connecter à Ollama">>,
                <<"initialize", "get_version">>)
    ELSE IF ~o.show
         THEN Raised(a, "APIError",
                     <<"Erreur d'initialisation Ollama: ",
                       "Modèle non disponible">>,
                     <<"initialize", "get_version", "post_show">>)
         ELSE Result(a, "ok", "None",
                     <<"initialize", "get_version", "post_show">>)

\* _format_messages, lines 63-80
Ollama_format_messages(msgs) ==
    [k \in 1..Len(msgs) |->
        [role |-> IF msgs[k].role = "assistant" THEN "assistant" ELSE "user",
         content |-> msgs[k].content]]

\* line 137: "message" in data and "content" in data["message"]
Ollama_has_content(data) ==
    /\ "message" \in DOMAIN data
    /\ "content" \in DOMAIN data.message

\* mutant: the reply is read from another field of the message
Ollama_response_role(a, answer) ==
    IF answer.kind = "transport"
    THEN Raised(a, "APIError",
                <<"Erreur lors de la génération: ", "connection reset">>,
                <<"post_chat">>)
    ELSE IF answer.status # "200"
    THEN Raised(a, "APIError",
                <<"Erreur lors de la génération: ", "Erreur Ollama: ",
                  answer.status, " - ", answer.body>>,
                <<"post_chat">>)
    ELSE IF ~Ollama_has_content(answer.doc)
    THEN Raised(a, "APIError",
                <<"Erreur lors de la génération: ",
                  "Format de réponse Ollama invalide">>,
                <<"post_chat">>)
    ELSE Result(a, "ok", answer.doc.message.role, <<"post_chat">>)

\* lines 120-144: what chat_completion does with the answer
Ollama_response(a, answer) ==
    IF answer.kind = "transport"
    THEN Raised(a, "APIError",
                <<"Erreur lors de la génération: ", "connection reset">>,
                <<"post_chat">>)
    ELSE IF answer.status # "200"
    THEN Raised(a, "APIError",
                <<"Erreur lors de la génération: ", "Erreur Ollama: ",
                  answer.status, " - ", answer.body>>,
                <<"post_chat">>)
    ELSE IF ~Ollama_has_content(answer.doc)
    THEN Raised(a, "APIError",
                <<"Erreur lors de la génération: ",
                  "Format de réponse Ollama invalide">>,
                <<"post_chat">>)
    ELSE Result(a, "ok", answer.doc.message.content, <<"post_chat">>)

\* lines 104-144: the request, on a session of its own
Ollama_request(a, msgs, o) ==
    [Ollama_response(a, IF o.post
                        THEN Answer("answer", "200", "", OllamaDoc(ReplyText))
                        ELSE o.fail)
        EXCEPT !.reqs = <<[messages |-> Ollama_format_messages(msgs)]>>]

\* lines 101-144
Ollama_chat_completion(a, msgs, o) ==
    IF msgs = <<>>
    THEN Raised(a, "ValidationError",
                <<"La liste des messages ne peut pas être vide">>, <<>>)
    ELSE Ollama_request(a, msgs, o)

\* lines 80-144: chat_completion(messages, stream=True); the request says
\* "stream": False (line 111) whatever the parameter says
Ollama_chat_completion_stream(a, msgs, o) ==
    Ollama_chat_completion(a, msgs, o)

\* lines 153-157, i is the call of initialize: True, or False on any error
Ollama_validate_credentials_end(i) ==
    IF i.res = "ok"
    THEN Result(i.a, "ok", "True", i.ev)
    ELSE Result(i.a, "ok", "False", i.ev)

Ollama_validate_credentials(a, o) ==
    Ollama_validate_credentials_end(Ollama_initialize(a, o))

\* ------------------------------------------- LLMProvider (the interface)
\* dispatch on the class of the instance
initialize(a, o) ==
    CASE a.provider = "mistral"   -> Mistral_initialize(a, o)
      [] a.provider = "gemini"    -> Gemini_initialize(a, o)
      [] a.provider = "lm_studio" -> LMStudio_initialize(a, o)
      [] a.provider = "ollama"    -> Ollama_initialize(a, o)

chat_completion(a, msgs, o) ==
    CASE a.provider = "mistral"   -> Mistral_chat_completion(a, msgs, o)
      [] a.provider = "gemini"    -> Gemini_chat_completion(a, msgs, o)
      [] a.provider = "lm_studio" -> LMStudio_chat_completion(a, msgs, o)
      [] a.provider = "ollama"    -> Ollama_chat_completion(a, msgs, o)

\* chat_completion(messages, stream=True)
chat_completion_stream(a, msgs, o) ==
    CASE a.provider = "mistral"   -> Mistral_chat_completion_stream(a, msgs, o)
      [] a.provider = "gemini"    -> Gemini_chat_completion_stream(a, msgs, o)
      [] a.provider = "lm_studio" -> LMStudio_chat_completion_stream(a, msgs, o)
      [] a.provider = "ollama"    -> Ollama_chat_completion_stream(a, msgs, o)

\* the request the generator of a remote-API adapter will send
stream_params(a, msgs) ==
    IF a.provider = "mistral"
    THEN Mistral_stream_params(msgs)
    ELSE Gemini_stream_params(msgs)

\* the body of the generator of a remote-API adapter
stream_response(a, params, answer, lines) ==
    IF a.provider = "mistral"
    THEN Mistral_stream_response(a, params, answer, lines)
    ELSE Gemini_stream_response(a, params, answer, lines)

validate_credentials(a, o) ==
    CASE a.provider = "mistral"   -> Mistral_validate_credentials(a, o)
      [] a.provider = "gemini"    -> Gemini_validate_credentials(a, o)
      [] a.provider = "lm_studio" -> LMStudio_validate_credentials(a, o)
      [] a.provider = "ollama"    -> Ollama_validate_credentials(a, o)

close(a, o) ==
    CASE a.provider = "mistral"   -> Mistral_close(a, o)
      [] a.provider = "gemini"    -> Gemini_close(a, o)
      [] a.provider = "lm_studio" -> LMStudio_close(a, o)
      [] a.provider = "ollama"    -> Ollama_close(a, o)

\* the outcomes that matter to a call on an instance of class cls: the
\* remote-API adapters make no probe, the local-server adapters hold no
\* session and make no credential test; the answer of a request that does
\* not succeed matters only when there is one
OutcomesOf(cls) ==
    IF cls \in {"mistral", "gemini"}
    THEN {o \in Outcomes : /\ o.probe /\ o.show
                           /\ (o.post /\ o.test) => o.fail = Unauthorized}
    ELSE {o \in Outcomes : /\ o.test /\ o.sclose
                           /\ o.post => o.fail = Unauthorized}

\* the outcomes that matter to close
CloseOutcomes ==
    {o \in Outcomes : o.post /\ o.test /\ o.probe /\ o.show
                        /\ o.fail = Unauthorized}

\* ------------------------------------------------------------------ state
VARIABLES
    selected_provider,  \* st.session_state.selected_provider
    current_provider,   \* st.session_state.current_provider: index into
                        \* adapters, 0 for None
    adapters,           \* the adapter instances that became current or hold
                        \* a session; a deallocated one leaves Freed behind
    messages,           \* st.session_state.messages
    keyring,            \* the secret store: provider -> key, "" for none
    pc,                 \* position of the single flow of control
    prompt,             \* argument of process_chat_response
    response,           \* value process_chat_response returned
    sent,               \* messages argument of the chat_completion call of
                        \* the operation in progress
    trace,              \* events of the operation in progress, in order
    last,               \* summary of the operation in progress or last ended
    streak,             \* history of consecutive provider switches
    models,             \* models.json: provider -> saved config, NoConfig
                        \* for none
    gen,                \* the generator a streaming chat_completion returned
    listing             \* the answer of Ollama's /api/tags and the names
                        \* get_ollama_models returned for it

vars == <<selected_provider, current_provider, adapters, messages, keyring,
          pc, prompt, response, sent, trace, last, streak, models, gen,
          listing>>

Keys == {"k1"}

NoProvider == 0

\* a freshly constructed instance; closed and inited record whether close()
\* has been called on it and whether initialize() has run on it
NewAdapter(p) ==
    [provider |-> p, session |-> "none", closed |-> FALSE, inited |-> FALSE]

\* what is left of an instance that was deallocated holding no session
Freed ==
    [provider |-> "freed", session |-> "none", closed |-> FALSE,
     inited |-> FALSE]

\* the instance after a call: the fields the call set, and the history flags
After(r, calledClose) ==
    [r.a EXCEPT !.closed = @ \/ calledClose,
                !.inited = @ \/ (\E k \in 1..Len(r.ev) : r.ev[k] = "initialize")]

\* the last reference to instance i is dropped: an instance without session
\* is deallocated, one with a session stays until __del__ has closed it
Release(ads, i) ==
    IF i # NoProvider /\ ads[i].session = "none"
    THEN [ads EXCEPT ![i] = Freed]
    ELSE ads

\* settings.py lines 22-28: the parameters of a model, in tenths
ModelParameters == [temperature |-> 7, top_p |-> 10]

\* every network call succeeds
NoOutcome == [post |-> TRUE, test |-> TRUE, probe |-> TRUE, show |-> TRUE,
              sclose |-> TRUE, fail |-> Unauthorized]

\* no ModelConfig
NoConfig == [error |-> "none", name |-> "", provider |-> "", type |-> "",
             api_key |-> "", base_url |-> "", parameters |-> ModelParameters]

\* op    "select", "send", the adapter method or ConfigManager operation
\*       called, "consume" of a generator, "construct", or "new" before the
\*       construction
\* arg   the provider or the prompt
\* end   "running", then how the operation ended
\* inst  the adapter that was current in the operation
\* cerr  close raised in the operation
\* hist  the conversation when the operation began
\* pre   the instance an adapter method was called on, before the call
\* prev  while select runs, the provider that was selected when it was
\*       called
\* msg   the message of the error an adapter method raised
\* reqs  the bodies of the completion requests an adapter method sent
\* out   the outcomes of the network calls of an adapter method
\* config the ModelConfig an adapter class was constructed with, or the one
\*       a ConfigManager operation was given or returned
\* lines the body a generator was consumed against
\* frags the fragments the generator yielded
\* saved in get_model_config, the config of the save_model_config for the
\*       same provider that came right before
NoLast == [op |-> "none", arg |-> "", end |-> "none", constructs |-> 0,
           chats |-> 0, inst |-> NoProvider, cerr |-> FALSE, hist |-> <<>>,
           pre |-> Freed, prev |-> "", msg |-> <<>>, reqs |-> <<>>,
           out |-> NoOutcome, config |-> NoConfig, lines |-> <<>>,
           frags |-> <<>>, saved |-> NoConfig]

NoStreak == [n |-> 0, inst |-> NoProvider, closes |-> 0]

\* the answer of GET /api/tags: models is read of a 200 that has the key
Tags(kind, status, has_models, entries) ==
    [kind |-> kind, status |-> status, has_models |-> has_models,
     models |-> entries]

\* no listing was asked for
NoListing == [tags |-> Tags("none", "", FALSE, <<>>), names |-> <<>>,
              done |-> FALSE]

\* no generator
NoGen == [state |-> "none", inst |-> NoProvider, msgs |-> <<>>]

Init ==
    /\ selected_provider = "mistral"
    /\ current_provider = NoProvider
    /\ adapters = <<>>
    /\ messages = <<>>
    /\ keyring = [p \in KeyProviders |-> ""]
    /\ pc = "idle"
    /\ prompt = ""
    /\ response = "None"
    /\ sent = <<>>
    /\ trace = <<>>
    /\ last = NoLast
    /\ streak = NoStreak
    /\ models = [p \in ProviderType |-> NoConfig]
    /\ gen = NoGen
    /\ listing = NoListing

\* ----------------------------------------------------------- ConfigManager
\* The sidebar saves the config of a local provider it shows (main.py line
\* 210): the entry then holds what the default holds in the fields the
\* adapters read (the type, no key, an endpoint), so the controller's runs
\* leave models.json as it is.

\* lines 44-71: the default config of a provider, as the dict it is kept
\* in; deepseek has none. A key that a dict does not hold reads as None,
\* here "".
DEFAULT_CONFIGS ==
    [p \in {"mistral", "gemini", "lm_studio", "ollama"} |->
        [error |-> "none",
         name |-> CASE p = "mistral"   -> "codestral-2501"
                    [] p = "gemini"    -> "gemini-pro"
                    [] p = "lm_studio" -> "llama2"
                    [] p = "ollama"    -> "mistral",
         provider |-> p,
         type |-> IF p \in {"mistral", "gemini"} THEN "api" ELSE "local",
         api_key |-> "",
         base_url |-> CASE p = "lm_studio" -> "http://localhost:1234"
                        [] p = "ollama"    -> "http://localhost:11434"
                        [] OTHER           -> "",
         parameters |-> ModelParameters]]

\* lines 136-153: the dict written for a ModelConfig
_config_to_dict(config) ==
    [error |-> "none", name |-> config.name, provider |-> config.provider,
     type |-> config.type, base_url |-> config.base_url,
     parameters |-> config.parameters, api_key |-> config.api_key]

\* lines 155-172: the ModelConfig read of a dict
_dict_to_config(data) ==
    [error |-> "none", name |-> data.name, provider |-> data.provider,
     type |-> data.type, base_url |-> data.base_url,
     parameters |-> data.parameters, api_key |-> data.api_key]

\* lines 106-120: the key the secret store holds for p, "" for None
get_api_key(p) == IF p \in DOMAIN keyring THEN keyring[p] ELSE ""

\* lines 174-207: the entry of models.json when there is one, as it is;
\* else the default with the key of the secret store put in; error is
\* "ValueError" when the provider has neither
get_model_config(p) ==
    IF models[p] # NoConfig
    THEN _dict_to_config(models[p])
    ELSE IF p \notin DOMAIN DEFAULT_CONFIGS
    THEN [error |-> "ValueError"]
    ELSE IF /\ DEFAULT_CONFIGS[p].type = "api"
            /\ get_api_key(p) # ""
    THEN [_dict_to_config(DEFAULT_CONFIGS[p])
            EXCEPT !.api_key = get_api_key(p)]
    ELSE _dict_to_config(DEFAULT_CONFIGS[p])

\* lines 209-229: models.json after save_model_config(config)
save_model_config(config) ==
    [models EXCEPT ![config.provider] = _config_to_dict(config)]

\* dict.update: the entries of new replace or extend those of old
update(old, new) ==
    [k \in DOMAIN old \cup DOMAIN new |->
        IF k \in DOMAIN new THEN new[k] ELSE old[k]]

\* lines 231-250: models.json after update_model_parameters(p, parameters);
\* when get_model_config raises, the error is raised again and nothing is
\* written
update_model_parameters(p, parameters) ==
    IF get_model_config(p).error # "none"
    THEN models
    ELSE save_model_config(
             [get_model_config(p)
                EXCEPT !.parameters = update(@, parameters)])

\* ConfigManager.save_api_key, called by render_sidebar (lines 170-178)
\* with the key typed for the selected provider; saving the key that is
\* stored already changes nothing
save_api_key(p, k) ==
    /\ pc = "idle"
    /\ p = selected_provider
    /\ keyring[p] # k
    /\ keyring' = [keyring EXCEPT ![p] = k]
    /\ UNCHANGED <<selected_provider, current_provider, adapters, messages,
                   pc, prompt, response, sent, trace, last, streak>>
    /\ UNCHANGED <<models, gen, listing>>

\* mutant: the endpoint of a local config is not looked at
validate_config_nourl(config) ==
    ~(config.type = "api" /\ config.api_key = "")

\* LLMProvider._validate_config
validate_config(config) ==
    /\ ~(config.type = "api" /\ config.api_key = "")
    /\ ~(config.type = "local" /\ config.base_url = "")

\* ------------------------------------------------- construction (__init__)
\* __init__ of the adapter class cls: MistralProvider and GeminiProvider
\* check the provider tag, LLMProvider.__init__ validates the config
Construct(cls, config) ==
    IF cls \in {"mistral", "gemini"} /\ config.provider # cls
    THEN [error |-> "ValidationError", a |-> NewAdapter(cls)]
    ELSE IF ~validate_config(config)
         THEN [error |-> "ValidationError", a |-> NewAdapter(cls)]
         ELSE [error |-> "none", a |-> NewAdapter(cls)]

\* ------------------------------------------------------ session controller
\* initialize_provider returns: the adapters afterwards, the instance
\* returned (NoProvider for None), the events, the constructions attempted
Provided(ads, provider, ev, constructs) ==
    [adapters |-> ads, provider |-> provider, ev |-> ev,
     constructs |-> constructs]

\* lines 122-127, r is the call of initialize on the new instance. An
\* instance whose initialize failed is dropped on return: it is recorded
\* only when it still holds a session.
initialize_provider_end(r) ==
    IF r.res = "ok"
    THEN Provided(Append(adapters, After(r, FALSE)), Len(adapters) + 1,
                  <<"construct">> \o r.ev, 1)
    ELSE IF r.a.session # "none"
         THEN Provided(Append(adapters, After(r, FALSE)), NoProvider,
                       <<"construct">> \o r.ev, 1)
         ELSE Provided(adapters, NoProvider, <<"construct">> \o r.ev, 1)

\* mutant: a provider without configuration is served by Mistral's
initialize_provider_default(provider_type, o) ==
    IF get_model_config(provider_type).error # "none"
    THEN IF Construct("mistral", get_model_config("mistral")).error # "none"
         THEN Provided(adapters, NoProvider, <<"construct">>, 1)
         ELSE initialize_provider_end(
                  initialize(
                      Construct("mistral", get_model_config("mistral")).a,
                      o))
    ELSE IF Construct(provider_type, get_model_config(provider_type)).error
              # "none"
         THEN Provided(adapters, NoProvider, <<"construct">>, 1)
         ELSE initialize_provider_end(
                  initialize(
                      Construct(provider_type,
                                get_model_config(provider_type)).a,
                      o))

\* lines 97-127
initialize_provider(provider_type, o) ==
    IF get_model_config(provider_type).error # "none"
    THEN Provided(adapters, NoProvider, <<>>, 0)
    ELSE IF Construct(provider_type, get_model_config(provider_type)).error
              # "none"
         THEN Provided(adapters, NoProvider, <<"construct">>, 1)
         ELSE initialize_provider_end(
                  initialize(
                      Construct(provider_type,
                                get_model_config(provider_type)).a,
                      o))

\* a switch ends: it counts when the streak began with an active adapter
EndSwitch(s) == IF s.inst # NoProvider THEN [s EXCEPT !.n = @ + 1] ELSE s

\* the locals of an operation are gone when it has ended
Return ==
    /\ pc' = "idle"
    /\ prompt' = ""
    /\ response' = "None"
    /\ sent' = <<>>
    /\ trace' = <<>>

\* render_sidebar, lines 162-211, with new_provider chosen in the selector:
\* change_provider is called when the choice differs from the selected
\* provider (162-163) and, on every render, when the key field (177-179) or
\* the URL field (207-211) is not empty. The key field holds the stored key
\* or the key just typed and saved; the URL field holds the configured URL
\* or what the user typed.
SidebarCalls(new_provider) ==
    \/ new_provider # selected_provider
    \/ new_provider \in KeyProviders /\ keyring[new_provider] # ""
    \/ new_provider \in {"lm_studio", "ollama"}

\* mutant: the selected provider is not updated
CpSelect_late(new_provider) ==
    /\ pc = "idle"
    /\ SidebarCalls(new_provider)
    /\ pc' = "cp_close"
    /\ trace' = <<>>
    /\ last' = [NoLast EXCEPT !.op = "select", !.arg = new_provider,
                              !.end = "running", !.inst = current_provider,
                              !.prev = selected_provider]
    /\ streak' = IF new_provider = selected_provider THEN NoStreak
                 ELSE IF streak.n = 1 THEN streak
                 ELSE [NoStreak EXCEPT !.inst = current_provider]
    /\ UNCHANGED <<selected_provider, current_provider, adapters, messages,
                   keyring, prompt, response, sent>>
    /\ UNCHANGED <<models, gen, listing>>

\* render_sidebar calls change_provider(new_provider); change_provider,
\* line 137
CpSelect(new_provider) ==
    /\ pc = "idle"
    /\ SidebarCalls(new_provider)
    /\ selected_provider' = new_provider
    /\ pc' = "cp_close"
    /\ trace' = <<>>
    /\ last' = [NoLast EXCEPT !.op = "select", !.arg = new_provider,
                              !.end = "running", !.inst = current_provider,
                              !.prev = selected_provider]
    /\ streak' = IF new_provider = selected_provider THEN NoStreak
                 ELSE IF streak.n = 1 THEN streak
                 ELSE [NoStreak EXCEPT !.inst = current_provider]
    /\ UNCHANGED <<current_provider, adapters, messages, keyring, prompt,
                   response, sent>>
    /\ UNCHANGED <<models, gen, listing>>

\* mutant: the current adapter is dropped without being closed
CpClose_skip ==
    /\ pc = "cp_close"
    /\ IF current_provider = NoProvider
       THEN /\ Return
            /\ last' = [last EXCEPT !.end = "returned", !.prev = ""]
            /\ streak' = EndSwitch(streak)
       ELSE /\ pc' = "cp_finally"
            /\ UNCHANGED <<last, streak, trace, prompt, response, sent>>
    /\ UNCHANGED <<selected_provider, current_provider, adapters, messages,
                   keyring>>
    /\ UNCHANGED <<models, gen, listing>>

\* change_provider, lines 140-144: the error of close is logged, not raised
CpClose ==
    /\ pc = "cp_close"
    /\ IF current_provider = NoProvider
       THEN /\ Return
            /\ last' = [last EXCEPT !.end = "returned", !.prev = ""]
            /\ streak' = EndSwitch(streak)
            /\ UNCHANGED adapters
       ELSE \E o \in CloseOutcomes :
              LET r == close(adapters[current_provider], o)
              IN  /\ adapters' = [adapters EXCEPT
                                    ![current_provider] = After(r, TRUE)]
                  /\ trace' = trace \o <<"close">> \o r.ev
                  /\ pc' = "cp_finally"
                  /\ last' = [last EXCEPT !.cerr = (r.res # "ok")]
                  /\ streak' = IF streak.inst = current_provider
                               THEN [streak EXCEPT !.closes = @ + 1]
                               ELSE streak
                  /\ UNCHANGED <<prompt, response, sent>>
    /\ UNCHANGED <<selected_provider, current_provider, messages, keyring>>
    /\ UNCHANGED <<models, gen, listing>>

\* mutant: no finally clause, the error of close leaves change_provider
CpFinally_propagate ==
    /\ pc = "cp_finally"
    /\ IF last.cerr
       THEN /\ last' = [last EXCEPT !.end = "raised", !.prev = ""]
            /\ UNCHANGED <<current_provider, adapters>>
       ELSE /\ current_provider' = NoProvider
            /\ adapters' = Release(adapters, current_provider)
            /\ last' = [last EXCEPT !.end = "returned", !.prev = ""]
    /\ Return
    /\ streak' = EndSwitch(streak)
    /\ UNCHANGED <<selected_provider, messages, keyring>>
    /\ UNCHANGED <<models, gen, listing>>

\* mutant: the adapter of the new provider is constructed at once
CpFinally_eager_end(ip) ==
    /\ adapters' = Release(ip.adapters, current_provider)
    /\ current_provider' = ip.provider
    /\ last' = [last EXCEPT !.end = "returned", !.prev = "",
                            !.constructs = @ + ip.constructs]

CpFinally_eager ==
    /\ pc = "cp_finally"
    /\ \E o \in OutcomesOf(selected_provider) :
         CpFinally_eager_end(initialize_provider(selected_provider, o))
    /\ Return
    /\ streak' = EndSwitch(streak)
    /\ UNCHANGED <<selected_provider, messages, keyring>>
    /\ UNCHANGED <<models, gen, listing>>

\* change_provider, lines 145-146
CpFinally ==
    /\ pc = "cp_finally"
    /\ current_provider' = NoProvider
    /\ adapters' = Release(adapters, current_provider)
    /\ Return
    /\ last' = [last EXCEPT !.end = "returned", !.prev = ""]
    /\ streak' = EndSwitch(streak)
    /\ UNCHANGED <<selected_provider, messages, keyring>>
    /\ UNCHANGED <<models, gen, listing>>

\* render_chat_interface, lines 298-312: the prompt joins the conversation,
\* then process_chat_response(prompt) is called
RciPrompt(q) ==
    /\ pc = "idle"
    /\ Len(messages) + 2 <= MaxMsgs
    /\ current_provider # NoProvider \/ Len(adapters) < MaxInst
    /\ messages' = Append(messages, [role |-> "user", content |-> q])
    /\ prompt' = q
    /\ response' = "None"
    /\ sent' = <<>>
    /\ trace' = <<>>
    /\ pc' = "pcr_get"
    /\ last' = [NoLast EXCEPT !.op = "send", !.arg = q, !.end = "running",
                              !.inst = current_provider, !.hist = messages]
    /\ streak' = NoStreak
    /\ UNCHANGED <<selected_provider, current_provider, adapters, keyring>>
    /\ UNCHANGED <<models, gen, listing>>

\* lines 247-249, ip is the call of initialize_provider
PcrGet_end(ip) ==
    /\ adapters' = ip.adapters
    /\ current_provider' = ip.provider
    /\ trace' = trace \o ip.ev
    /\ last' = [last EXCEPT !.constructs = @ + ip.constructs,
                            !.inst = ip.provider]

\* process_chat_response, lines 245-249
PcrGet ==
    /\ pc = "pcr_get"
    /\ IF current_provider = NoProvider
       THEN \E o \in OutcomesOf(selected_provider) :
              PcrGet_end(initialize_provider(selected_provider, o))
       ELSE UNCHANGED <<adapters, current_provider, trace, last>>
    /\ pc' = "pcr_chat"
    /\ UNCHANGED <<selected_provider, messages, keyring, prompt, response,
                   sent, streak>>
    /\ UNCHANGED <<models, gen, listing>>

\* lines 257-264: a Message for every entry of the conversation
ToMessage(msg) == Message(msg.role, msg.content)

\* lines 256-273: the conversation, then the prompt as a user message
ChatMessages ==
    [k \in 1..Len(messages) |-> ToMessage(messages[k])]
        \o <<Message("user", prompt)>>

\* lines 276-281, r is the call of chat_completion: its value is returned,
\* its error is caught
PcrChat_end(r) ==
    /\ adapters' = [adapters EXCEPT ![current_provider] = After(r, FALSE)]
    /\ trace' = trace \o <<"chat_completion">> \o r.ev
    /\ last' = [last EXCEPT !.chats = @ + 1]
    /\ IF r.res = "ok"
       THEN response' = r.ret /\ pc' = "rci_resp"
       ELSE response' = "None" /\ pc' = "pcr_except"

\* process_chat_response, lines 251-279
PcrChat ==
    /\ pc = "pcr_chat"
    /\ IF current_provider = NoProvider
       THEN /\ pc' = "rci_resp"
            /\ UNCHANGED <<adapters, response, sent, trace, last>>
       ELSE /\ sent' = ChatMessages
            /\ \E o \in OutcomesOf(adapters[current_provider].provider) :
                 PcrChat_end(chat_completion(adapters[current_provider],
                                             ChatMessages, o))
    /\ UNCHANGED <<selected_provider, current_provider, messages, keyring,
                   prompt, streak>>
    /\ UNCHANGED <<models, gen, listing>>

\* mutant: after a failure the send starts over, once
PcrExcept_retry ==
    /\ pc = "pcr_except"
    /\ IF current_provider = NoProvider
       THEN /\ pc' = "rci_resp"
            /\ UNCHANGED <<adapters, current_provider, trace, last, prompt,
                           response, sent>>
       ELSE \E o \in CloseOutcomes :
              LET r == close(adapters[current_provider], o)
                  ads == [adapters EXCEPT ![current_provider] = After(r, TRUE)]
              IN  IF r.res = "ok"
                  THEN /\ current_provider' = NoProvider
                       /\ adapters' = Release(ads, current_provider)
                       /\ trace' = trace \o <<"close">> \o r.ev
                       /\ pc' = IF last.chats < 2 /\ Len(adapters) < MaxInst
                                THEN "pcr_get" ELSE "rci_resp"
                       /\ UNCHANGED <<last, prompt, response, sent>>
                  ELSE /\ adapters' = ads
                       /\ Return
                       /\ last' = [last EXCEPT !.end = "raised",
                                               !.cerr = TRUE]
                       /\ UNCHANGED current_provider
    /\ UNCHANGED <<selected_provider, messages, keyring, streak>>
    /\ UNCHANGED <<models, gen, listing>>

\* process_chat_response, lines 281-286: close is not guarded; when it
\* raises, line 285 is skipped and the error leaves process_chat_response
\* and render_chat_interface
PcrExcept ==
    /\ pc = "pcr_except"
    /\ IF current_provider = NoProvider
       THEN /\ pc' = "rci_resp"
            /\ UNCHANGED <<adapters, current_provider, trace, last, prompt,
                           response, sent>>
       ELSE \E o \in CloseOutcomes :
              LET r == close(adapters[current_provider], o)
                  ads == [adapters EXCEPT ![current_provider] = After(r, TRUE)]
              IN  IF r.res = "ok"
                  THEN /\ current_provider' = NoProvider
                       /\ adapters' = Release(ads, current_provider)
                       /\ trace' = trace \o <<"close">> \o r.ev
                       /\ pc' = "rci_resp"
                       /\ UNCHANGED <<last, prompt, response, sent>>
                  ELSE /\ adapters' = ads
                       /\ Return
                       /\ last' = [last EXCEPT !.end = "raised",
                                               !.cerr = TRUE]
                       /\ UNCHANGED current_provider
    /\ UNCHANGED <<selected_provider, messages, keyring, streak>>
    /\ UNCHANGED <<models, gen, listing>>

\* render_chat_interface, lines 314-321
RciResponse ==
    /\ pc = "rci_resp"
    /\ IF response # "None"
       THEN /\ messages' = Append(messages,
                                  [role |-> "assistant", content |-> response])
            /\ last' = [last EXCEPT !.end = "replied"]
       ELSE /\ UNCHANGED messages
            /\ last' = [last EXCEPT !.end = "failed"]
    /\ Return
    /\ UNCHANGED <<selected_provider, current_provider, adapters, keyring,
                   streak>>
    /\ UNCHANGED <<models, gen, listing>>

\* __del__ of MistralProvider and GeminiProvider: an instance nobody refers
\* to any more tries to close the session it still holds; an error is logged
Del(i) ==
    /\ i \in 1..Len(adapters)
    /\ i # current_provider
    /\ adapters[i].session # "none"
    /\ \E o \in CloseOutcomes :
         LET r == close(adapters[i], o)
         IN  /\ r.res = "ok"
             /\ adapters' = Release([adapters EXCEPT ![i] = After(r, TRUE)], i)
    /\ UNCHANGED <<selected_provider, current_provider, messages, keyring,
                   pc, prompt, response, sent, trace, last, streak>>
    /\ UNCHANGED <<models, gen, listing>>

Next ==
    \/ \E p \in ProviderType : CpSelect(p)
    \/ CpClose
    \/ CpFinally
    \/ \E q \in Prompts : RciPrompt(q)
    \/ PcrGet
    \/ PcrChat
    \/ PcrExcept
    \/ RciResponse
    \/ \E i \in 1..MaxInst : Del(i)
    \/ \E p \in KeyProviders, k \in Keys : save_api_key(p, k)

Spec == Init /\ [][Next]_vars

\* ------------------------------------------- the adapter interface, alone
\* An adapter class is constructed with some ModelConfig; when construction
\* succeeds the instance is handed to a caller that calls its four methods
\* in any order (as __aenter__ and __aexit__ of the classes do); every call
\* runs to its end.
AdapterClasses == {"mistral", "gemini", "lm_studio", "ollama"}

\* the ModelConfig values a class can be constructed with
Configs ==
    [error : {"none"}, name : {"llama2"}, provider : ProviderType,
     type : {"api", "local"}, api_key : {""} \cup Keys,
     base_url : {"", "http://localhost:1234"},
     parameters : {ModelParameters}]

\* cls(config): c is what __init__ did
Constructed(cls, config, c) ==
    /\ adapters' = IF c.error = "none" THEN <<c.a>> ELSE <<>>
    /\ last' = [NoLast EXCEPT !.op = "construct", !.arg = cls,
                              !.end = IF c.error = "none" THEN "ok"
                                                          ELSE c.error,
                              !.config = config]

CallMessages ==
    {<<>>,
     <<Message("user", "p")>>,
     <<Message("user", "p"), Message("assistant", "r"), Message("user", "q")>>}

InitAdapter ==
    /\ selected_provider = "mistral"
    /\ current_provider = NoProvider
    /\ adapters = <<>>
    /\ \E cls \in AdapterClasses, config \in Configs :
         last = [NoLast EXCEPT !.op = "new", !.arg = cls, !.config = config]
    /\ messages = <<>>
    /\ keyring = [p \in KeyProviders |-> ""]
    /\ pc = "idle"
    /\ prompt = ""
    /\ response = "None"
    /\ sent = <<>>
    /\ trace = <<>>
    /\ streak = NoStreak
    /\ models = [p \in ProviderType |-> NoConfig]
    /\ gen = NoGen
    /\ listing = NoListing

\* the class is constructed with the config
CallConstruct ==
    /\ last.op = "new"
    /\ Constructed(last.arg, last.config, Construct(last.arg, last.config))
    /\ UNCHANGED <<selected_provider, current_provider, messages, keyring,
                   pc, prompt, response, sent, trace, streak>>
    /\ UNCHANGED <<models, gen, listing>>

\* the call r of method op on instance i, made with the outcomes o
Called(i, op, r, calledClose, o) ==
    /\ adapters' = [adapters EXCEPT ![i] = After(r, calledClose)]
    /\ trace' = r.ev
    /\ last' = [NoLast EXCEPT !.op = op, !.arg = r.ret, !.end = r.res,
                              !.inst = i, !.pre = adapters[i],
                              !.cerr = calledClose /\ r.res # "ok",
                              !.msg = r.msg, !.reqs = r.reqs, !.out = o]
    /\ UNCHANGED <<selected_provider, current_provider, messages, keyring,
                   pc, prompt, response, streak>>

CallInitialize(i) ==
    /\ i \in 1..Len(adapters)
    /\ \E o \in OutcomesOf(adapters[i].provider) :
         Called(i, "initialize", initialize(adapters[i], o), FALSE, o)
    /\ UNCHANGED sent
    /\ UNCHANGED <<models, gen, listing>>

CallChatCompletion(i, msgs) ==
    /\ i \in 1..Len(adapters)
    /\ \E o \in OutcomesOf(adapters[i].provider) :
         Called(i, "chat_completion", chat_completion(adapters[i], msgs, o),
                FALSE, o)
    /\ sent' = msgs
    /\ UNCHANGED <<models, gen, listing>>

CallValidateCredentials(i) ==
    /\ i \in 1..Len(adapters)
    /\ \E o \in OutcomesOf(adapters[i].provider) :
         Called(i, "validate_credentials",
                validate_credentials(adapters[i], o), FALSE, o)
    /\ UNCHANGED sent
    /\ UNCHANGED <<models, gen, listing>>

CallClose(i) ==
    /\ i \in 1..Len(adapters)
    /\ \E o \in CloseOutcomes :
         Called(i, "close", close(adapters[i], o), TRUE, o)
    /\ UNCHANGED sent
    /\ UNCHANGED <<models, gen, listing>>

NextAdapter ==
    \/ CallConstruct
    \/ CallInitialize(1)
    \/ \E msgs \in CallMessages : CallChatCompletion(1, msgs)
    \/ CallValidateCredentials(1)
    \/ CallClose(1)

SpecAdapter == InitAdapter /\ [][NextAdapter]_vars

\* ------------------------------------------------ streamed completions
\* A caller of one constructed instance that asks for streamed completions
\* and consumes what it is given, with initialize and close in between.
MistralChunk(text) == [choices |-> <<[delta |-> [content |-> text]]>>]
GeminiChunk(text) ==
    [candidates |-> <<[content |-> [parts |-> <<[text |-> text]>>]]>>]

\* the lines a backend can stream; the doc of a line that is no object is
\* not read
StreamLines(cls) ==
    {Line("bytes", NoFieldDoc), Line("text", NoFieldDoc),
     Line("scalar", NoFieldDoc)}
    \cup IF cls = "mistral"
         THEN {Line("object", MistralChunk("a")),
               Line("object", MistralChunk("b")),
               Line("object", [choices |-> <<>>])}
         ELSE {Line("object", GeminiChunk("a")),
               Line("object", GeminiChunk("b")),
               Line("object", [candidates |-> <<>>])}

StreamBodies(cls) ==
    UNION {[1..n -> StreamLines(cls)] : n \in 0..MaxLines}

\* the answers to the request of a generator, each with the bodies it can
\* carry: the lines are read of a 200 only
StreamAnswer == Answer("answer", "200", "", NoFieldDoc)
StreamFailures == {f \in Failures : f.kind = "transport" \/ f.status # "200"}

\* the conversations streamed completions are asked for: those with a reply
\* in them
StreamMessages == {msgs \in CallMessages : Len(msgs) > 1}

InitStream ==
    /\ selected_provider = "mistral"
    /\ current_provider = NoProvider
    /\ \E cls \in AdapterClasses : adapters = <<NewAdapter(cls)>>
    /\ messages = <<>>
    /\ keyring = [p \in KeyProviders |-> ""]
    /\ pc = "idle"
    /\ prompt = ""
    /\ response = ""
    /\ sent = <<>>
    /\ trace = <<>>
    /\ last = NoLast
    /\ streak = NoStreak
    /\ models = [p \in ProviderType |-> NoConfig]
    /\ gen = NoGen
    /\ listing = NoListing

\* await adapter.chat_completion(msgs, stream=True)
CallChatCompletionStream(i, msgs) ==
    /\ i \in 1..Len(adapters)
    /\ \E o \in OutcomesOf(adapters[i].provider) :
         /\ Called(i, "chat_completion_stream",
                   chat_completion_stream(adapters[i], msgs, o), FALSE, o)
         /\ gen' = IF chat_completion_stream(adapters[i], msgs, o).ret
                       = "generator"
                   THEN [state |-> "pending", inst |-> i, msgs |-> msgs]
                   ELSE NoGen
    /\ sent' = msgs
    /\ UNCHANGED models
    /\ UNCHANGED listing

\* s is how the generator ran to its end, the backend answering with answer
\* and the body lines
Consumed(i, s, answer, lines) ==
    /\ trace' = s.ev
    /\ last' = [NoLast EXCEPT !.op = "consume", !.end = s.res, !.inst = i,
                              !.arg = IF answer.kind = "transport"
                                      THEN "transport"
                                      ELSE answer.status,
                              !.pre = adapters[i], !.msg = s.msg,
                              !.reqs = s.reqs, !.lines = lines,
                              !.frags = s.out]
    /\ gen' = NoGen

\* async for fragment in generator: the first consumption runs the body
CallConsume(answer, lines) ==
    /\ gen.state = "pending"
    /\ Consumed(gen.inst,
                stream_response(adapters[gen.inst],
                                stream_params(adapters[gen.inst], gen.msgs),
                                answer, lines),
                answer, lines)
    /\ UNCHANGED <<selected_provider, current_provider, adapters, messages,
                   keyring, pc, prompt, response, sent, streak, models>>
    /\ UNCHANGED listing

NextStream ==
    \/ CallInitialize(1)
    \/ CallClose(1)
    \/ \E msgs \in StreamMessages : CallChatCompletionStream(1, msgs)
    \/ \E lines \in StreamBodies(adapters[1].provider) :
         CallConsume(StreamAnswer, lines)
    \/ \E answer \in StreamFailures : CallConsume(answer, <<>>)

SpecStream == InitStream /\ [][NextStream]_vars

\* ------------------------------------------------- get_ollama_models
\* the code points of the model names, which sorted() compares
CodePoints ==
    [a |-> <<97>>, b |-> <<98>>, ab |-> <<97, 98>>, B |-> <<66>>]

ModelNames == DOMAIN CodePoints

\* str.__lt__: x comes before y, code point by code point
RECURSIVE Precedes(_, _)
Precedes(x, y) ==
    IF y = <<>>
    THEN FALSE
    ELSE IF x = <<>>
    THEN TRUE
    ELSE IF x[1] # y[1]
    THEN x[1] < y[1]
    ELSE Precedes(Tail(x), Tail(y))

\* name put into the ascending list at its place, after its equals
RECURSIVE Insert(_, _)
RECURSIVE sorted(_, _)
RECURSIVE sorted_unique(_, _)
Insert(name, list) ==
    IF list = <<>>
    THEN <<name>>
    ELSE IF Precedes(CodePoints[name], CodePoints[list[1]])
    THEN <<name>> \o list
    ELSE <<list[1]>> \o Insert(name, Tail(list))

\* mutant: a name that is listed already is not listed again
sorted_unique(names, k) ==
    IF k > Len(names)
    THEN <<>>
    ELSE IF \E j \in k + 1..Len(names) : names[j] = names[k]
    THEN sorted_unique(names, k + 1)
    ELSE Insert(names[k], sorted_unique(names, k + 1))

\* sorted(names[k..]) of line 84
sorted(names, k) ==
    IF k > Len(names)
    THEN <<>>
    ELSE Insert(names[k], sorted(names, k + 1))

\* main.py lines 67-95
get_ollama_models(tags) ==
    IF tags.kind = "transport" \/ tags.status # "200"
    THEN <<"mistral", "llama2", "codellama", "mixtral">>
    ELSE IF ~tags.has_models
    THEN <<"mistral", "llama2">>
    ELSE sorted([k \in 1..Len(tags.models) |-> tags.models[k].name], 1)

\* the answers of the listing endpoint
TagsAnswers ==
    {Tags("transport", "", FALSE, <<>>), Tags("answer", "500", FALSE, <<>>),
     Tags("answer", "200", FALSE, <<>>)}
    \cup UNION {{Tags("answer", "200", TRUE,
                      [k \in 1..n |-> [name |-> names[k]]]) :
                    names \in [1..n -> ModelNames]} : n \in 0..MaxNames}

InitListing ==
    /\ selected_provider = "ollama"
    /\ current_provider = NoProvider
    /\ adapters = <<>>
    /\ messages = <<>>
    /\ keyring = [p \in KeyProviders |-> ""]
    /\ pc = "idle"
    /\ prompt = ""
    /\ response = ""
    /\ sent = <<>>
    /\ trace = <<>>
    /\ last = NoLast
    /\ streak = NoStreak
    /\ models = [p \in ProviderType |-> NoConfig]
    /\ gen = NoGen
    /\ \E tags \in TagsAnswers :
         listing = [tags |-> tags, names |-> <<>>, done |-> FALSE]

\* run_async(get_ollama_models(base_url)) of render_sidebar
CallGetOllamaModels ==
    /\ ~listing.done
    /\ listing' = [listing EXCEPT !.names = get_ollama_models(listing.tags),
                                  !.done = TRUE]
    /\ UNCHANGED <<selected_provider, current_provider, adapters, messages,
                   keyring, pc, prompt, response, sent, trace, last, streak,
                   models, gen>>

NextListing == CallGetOllamaModels

SpecListing == InitListing /\ [][NextListing]_vars

\* ------------------------------------------------ the ConfigManager, alone
\* A caller of the four operations of the ConfigManager on the secret store
\* and models.json, in any order.
ConfigKeys == {"k1", "k2"}

\* the providers the operations are called for: a remote-API one, a local
\* one and the one without default
ConfigProviders == {"mistral", "ollama", "deepseek"}

\* the ModelConfig values save_model_config is called with
SaveConfigs ==
    [error : {"none"}, name : {"m2"}, provider : {"mistral", "ollama"},
     type : {"api", "local"}, api_key : {"", "k1"},
     base_url : {"", "http://localhost:11434"},
     parameters : {ModelParameters}]

\* the dicts update_model_parameters is called with
ParameterUpdates == {[temperature |-> 2, max_tokens |-> 256]}

InitConfig ==
    /\ selected_provider = "mistral"
    /\ current_provider = NoProvider
    /\ adapters = <<>>
    /\ messages = <<>>
    /\ keyring = [p \in KeyProviders |-> ""]
    /\ pc = "idle"
    /\ prompt = ""
    /\ response = ""
    /\ sent = <<>>
    /\ trace = <<>>
    /\ last = NoLast
    /\ streak = NoStreak
    /\ models = [p \in ProviderType |-> NoConfig]
    /\ gen = NoGen
    /\ listing = NoListing

\* config_manager.save_api_key(p, k)
CallSaveApiKey(p, k) ==
    /\ p \in DOMAIN keyring
    /\ keyring' = [keyring EXCEPT ![p] = k]
    /\ last' = [NoLast EXCEPT !.op = "save_api_key", !.arg = p, !.end = "ok"]
    /\ UNCHANGED <<selected_provider, current_provider, adapters, messages,
                   pc, prompt, response, sent, trace, streak, models, gen>>
    /\ UNCHANGED listing

\* config_manager.get_model_config(p): saved is the config of the
\* save_model_config for p that came right before, if one did
CallGetModelConfig(p) ==
    /\ last' = [NoLast EXCEPT
                  !.op = "get_model_config", !.arg = p,
                  !.end = IF get_model_config(p).error = "none"
                          THEN "ok"
                          ELSE get_model_config(p).error,
                  !.config = IF get_model_config(p).error = "none"
                             THEN get_model_config(p)
                             ELSE NoConfig,
                  !.saved = IF /\ last.op = "save_model_config"
                               /\ last.config.provider = p
                            THEN last.config
                            ELSE NoConfig]
    /\ UNCHANGED <<selected_provider, current_provider, adapters, messages,
                   keyring, pc, prompt, response, sent, trace, streak,
                   models, gen>>
    /\ UNCHANGED listing

\* config_manager.save_model_config(config)
CallSaveModelConfig(config) ==
    /\ models' = save_model_config(config)
    /\ last' = [NoLast EXCEPT !.op = "save_model_config",
                              !.arg = config.provider, !.end = "ok",
                              !.config = config]
    /\ UNCHANGED <<selected_provider, current_provider, adapters, messages,
                   keyring, pc, prompt, response, sent, trace, streak, gen>>
    /\ UNCHANGED listing

\* config_manager.update_model_parameters(p, parameters)
CallUpdateModelParameters(p, parameters) ==
    /\ models' = update_model_parameters(p, parameters)
    /\ last' = [NoLast EXCEPT
                  !.op = "update_model_parameters", !.arg = p,
                  !.end = IF get_model_config(p).error = "none"
                          THEN "ok"
                          ELSE get_model_config(p).error]
    /\ UNCHANGED <<selected_provider, current_provider, adapters, messages,
                   keyring, pc, prompt, response, sent, trace, streak, gen>>
    /\ UNCHANGED listing

NextConfig ==
    \/ \E k \in ConfigKeys : CallSaveApiKey("mistral", k)
    \/ \E p \in ConfigProviders : CallGetModelConfig(p)
    \/ \E config \in SaveConfigs : CallSaveModelConfig(config)
    \/ \E p \in ConfigProviders, parameters \in ParameterUpdates :
         CallUpdateModelParameters(p, parameters)

SpecConfig == InitConfig /\ [][NextConfig]_vars

\* ================================================================ claims
Has(tr, e) == \E k \in 1..Len(tr) : tr[k] = e

\* requests to a backend and sessions opened
BackendEvents ==
    {"session_open", "post_chat", "get_models", "get_version", "post_show"}

\* construction, initialization or backend traffic
AdapterEvents == BackendEvents \cup {"construct", "initialize"}

OpenInstances == {i \in 1..Len(adapters) : adapters[i].session = "open"}

InSelect == pc \in {"cp_close", "cp_finally"}

\* C1: in every reachable state at most one adapter instance holds an open
\* session, and that instance is the controller's current adapter.
C1_OneLiveAdapter ==
    /\ Cardinality(OpenInstances) <= 1
    /\ \A i \in OpenInstances : i = current_provider

\* C2 as stated: a call of initialize, chat_completion or
\* validate_credentials on an instance on which close() was called opens no
\* session and sends no request.
C2_ClosedIsTerminal ==
    (last.op \in {"initialize", "chat_completion", "validate_credentials"}
        /\ last.pre.closed)
    => \A k \in 1..Len(trace) : trace[k] \notin BackendEvents

\* C2 amended: close() that returns normally leaves the instance without a
\* session and sends nothing; the instance is then as before initialization:
\* a later chat_completion, initialize or validate_credentials on a
\* remote-API instance starts with initialize and opens a new session, and
\* on a local-server instance it sends its requests as on a fresh one.
C2_CloseReleasesAndReopens ==
    /\ (last.op = "close" /\ last.end = "ok")
       => /\ adapters[last.inst].session = "none"
          /\ \A k \in 1..Len(trace) : trace[k] \notin AdapterEvents
    /\ (last.op \in {"initialize", "chat_completion", "validate_credentials"}
          /\ last.pre.closed /\ last.pre.session = "none"
          /\ last.pre.provider \in {"mistral", "gemini"})
       => /\ Len(trace) >= 2
          /\ trace[1] = "initialize"
          /\ trace[2] = "session_open"
    /\ (last.op = "chat_completion" /\ last.pre.closed /\ sent # <<>>
          /\ last.pre.provider \in {"lm_studio", "ollama"})
       => trace = <<"post_chat">>

C2_Witness ==
    /\ last.op = "chat_completion"
    /\ last.pre.closed
    /\ last.pre.session = "none"
    /\ last.pre.provider = "mistral"
    /\ adapters[last.inst].session = "open"

\* the first position of event e in tr, 0 when it does not occur
First(tr, e) ==
    IF Has(tr, e)
    THEN CHOOSE k \in 1..Len(tr) :
            tr[k] = e /\ \A j \in 1..(k - 1) : tr[j] # e
    ELSE 0

\* C3 as stated: for every variant, chat_completion on an instance that was
\* never initialized runs initialize before it sends the completion request.
C3_InitializeFirst ==
    (last.op = "chat_completion" /\ ~last.pre.inited /\ Has(trace, "post_chat"))
    => /\ Has(trace, "initialize")
       /\ First(trace, "initialize") < First(trace, "post_chat")

\* C3 amended: this holds for the Mistral and Gemini adapters; chat_completion
\* of the LM Studio and Ollama adapters never runs initialize and sends the
\* completion request at once.
C3_InitializeFirstRemoteOnly ==
    /\ (last.op = "chat_completion" /\ ~last.pre.inited
          /\ last.pre.provider \in {"mistral", "gemini"})
       => /\ Has(trace, "initialize")
          /\ Has(trace, "post_chat")
          /\ First(trace, "initialize") < First(trace, "post_chat")
    /\ (last.op = "chat_completion"
          /\ last.pre.provider \in {"lm_studio", "ollama"})
       => ~Has(trace, "initialize")

C3_Witness ==
    /\ last.op = "chat_completion"
    /\ ~last.pre.inited
    /\ last.pre.provider = "gemini"
    /\ last.end = "ok"

\* the current adapter belongs to another provider than the one select was
\* called with, and its session is open
OldAdapterOpen ==
    /\ current_provider # NoProvider
    /\ adapters[current_provider].provider # last.arg
    /\ adapters[current_provider].session = "open"

\* C4 as stated: during select there is no state in which the selected
\* provider already names the new provider while the old adapter is still
\* the open current adapter.
C4_ClosedBeforeSelected ==
    (InSelect /\ OldAdapterOpen) => selected_provider # last.arg

\* C4 amended: select marks the new provider as selected first and closes
\* the current adapter afterwards: while the old adapter is being closed the
\* selected provider already names the new provider, and when select has
\* returned the old adapter is not current any more.
C4_SelectedBeforeClosed ==
    /\ InSelect => selected_provider = last.arg
    /\ (last.op = "select" /\ pc = "idle")
       => selected_provider = last.arg /\ current_provider = NoProvider

C4_Witness ==
    /\ pc = "cp_close"
    /\ OldAdapterOpen
    /\ selected_provider = last.arg

\* C5: select never propagates an error of close: it returns normally, the
\* new provider is selected and the controller holds no current adapter.
C5_SelectSwallowsCloseError ==
    (last.op = "select" /\ pc = "idle")
    => /\ last.end = "returned"
       /\ selected_provider = last.arg
       /\ current_provider = NoProvider

C5_Witness ==
    /\ last.op = "select"
    /\ pc = "idle"
    /\ last.cerr
    /\ last.inst # NoProvider

\* C6: no step of select constructs or initializes an adapter or sends a
\* request; an adapter comes into existence only in a send.
C6_SelectConstructsNothing ==
    [][ /\ (pc' \in {"cp_close", "cp_finally"} \/ InSelect)
           => /\ Len(adapters') = Len(adapters)
              /\ \A k \in 1..Len(trace') : trace'[k] \notin AdapterEvents
              /\ last'.constructs = 0
              /\ current_provider' \in {current_provider, NoProvider}
        /\ (Len(adapters') > Len(adapters) \/ Has(trace', "construct"))
           => last'.op = "send" ]_vars

C6_Witness ==
    /\ last.op = "select"
    /\ pc = "idle"
    /\ last.inst # NoProvider
    /\ adapters[last.inst].provider # selected_provider
    /\ \A i \in 1..Len(adapters) : adapters[i].provider # selected_provider

C8_FailedSendDiscards ==
    (last.op = "send" /\ last.end \in {"failed", "raised"} /\ pc = "idle")
    => /\ current_provider = NoProvider
       /\ last.inst # NoProvider => adapters[last.inst].session = "none"

\* the completion requests sent by calls of chat_completion on the current
\* adapter in the operation in progress
RequestsOfCalls ==
    {k \in 1..Len(trace) :
        /\ trace[k] = "post_chat"
        /\ \E j \in 1..(k - 1) : trace[j] = "chat_completion"}

\* C9: within one send chat_completion is invoked at most once on the
\* current adapter, sending at most one completion request, and construction
\* is attempted at most once, whether the send succeeds or fails.
C9_NoRetry ==
    last.op = "send"
    => /\ last.chats <= 1
       /\ last.constructs <= 1
       /\ Cardinality(RequestsOfCalls) <= 1

C9_Witness ==
    /\ last.op = "send"
    /\ last.end = "failed"
    /\ last.chats = 1
    /\ last.constructs = 1

\* C10: the messages passed to chat_completion are the conversation as it
\* stood before the prompt, in order, then the prompt as one user message.
C10_PromptOnce ==
    (last.op = "send" /\ last.chats = 1 /\ pc # "idle")
    => sent = last.hist \o <<Message("user", last.arg)>>

\* the step takes the current adapter from the controller, or ends the
\* session the current adapter held
TearsDown ==
    /\ current_provider # NoProvider
    /\ \/ current_provider' # current_provider
       \/ /\ adapters[current_provider].session = "open"
          /\ adapters'[current_provider].session # "open"

\* C11: the current adapter stays current, with its session open, across
\* successful sends and re-renders: it is torn down only in a select of a
\* different provider or after a send that failed.
C11_KeptUntilSwitchOrFailure ==
    [][ TearsDown
        => \/ pc = "pcr_except"
           \/ InSelect /\ last.arg # last.prev ]_vars

\* C12: chat_completion called with an empty message list ends with a
\* ValidationError and sends nothing to the backend, whatever the variant.
C12_EmptyIsValidationError ==
    (last.op = "chat_completion" /\ sent = <<>>)
    => /\ last.end = "ValidationError"
       /\ \A k \in 1..Len(trace) : trace[k] \notin BackendEvents

RemoteClasses == {"mistral", "gemini"}

\* the last call was chat_completion and it sent the completion request for
\* its own messages: an instance of a remote-API class without session sends
\* the request of the credential test before it
OwnRequestSent ==
    /\ last.op = "chat_completion"
    /\ IF last.pre.provider \in RemoteClasses /\ last.pre.session = "none"
       THEN Len(last.reqs) = 2
       ELSE Len(last.reqs) = 1

\* the completion request that did not succeed was answered with a status
\* other than 200
AnsweredNon200 ==
    /\ last.out.fail.kind = "answer"
    /\ last.out.fail.status # "200"

C14_OnlyValidationOrAPIError ==
    last.op = "chat_completion"
    => last.end \in {"ok", "ValidationError", "APIError"}

\* the reply in the document d of a 200 answer, at the path documented for
\* the class cls
DocumentedText(cls, d) ==
    CASE cls \in {"mistral", "lm_studio"} -> d.choices[1].message.content
      [] cls = "gemini" -> d.candidates[1].content.parts[1].text
      [] cls = "ollama" -> d.message.content

\* the document a backend of class cls answers with
DocOf(cls) ==
    CASE cls = "mistral"   -> MistralDoc(ReplyText)
      [] cls = "gemini"    -> GeminiDoc(ReplyText)
      [] cls = "lm_studio" -> LMStudioDoc(ReplyText)
      [] cls = "ollama"    -> OllamaDoc(ReplyText)

\* C15: for a history that is not empty, a chat_completion whose request is
\* answered 200 ends normally and returns the text found at the documented
\* path of the answer, unchanged.
C15_ReturnsDocumentedText ==
    (OwnRequestSent /\ sent # <<>> /\ last.out.post)
    => /\ last.end = "ok"
       /\ last.arg = DocumentedText(last.pre.provider,
                                    DocOf(last.pre.provider))

C15_Witness ==
    /\ OwnRequestSent
    /\ Len(sent) = 3
    /\ last.out.post
    /\ last.pre.provider = "ollama"
    /\ last.arg = ReplyText

\* the body of the completion request a class sends for the messages msgs
FormatOf(cls, msgs) ==
    CASE cls = "mistral"   -> Mistral_format(msgs)
      [] cls = "gemini"    -> Gemini_format(msgs)
      [] cls = "lm_studio" -> LMStudio_format(msgs)
      [] cls = "ollama"    -> [messages |-> Ollama_format_messages(msgs)]

\* C16 as stated: every call of chat_completion sends exactly one completion
\* request, on an uninitialized instance as on a ready one.
C16_OneRequestPerCall ==
    last.op = "chat_completion" => Len(last.reqs) = 1

\* C16 amended: a call on a Mistral or Gemini instance that holds a session
\* sends exactly one completion request, the one for its messages; on an
\* instance of these classes without session the first request is the
\* credential test of initialize, followed by the request for the messages
\* when the test succeeded and by nothing when it failed; a call on an LM
\* Studio or Ollama instance sends one request for a list that is not empty
\* and none for the empty list.
C16_OneRequestWhenReady ==
    last.op = "chat_completion"
    => IF last.pre.provider \in RemoteClasses
       THEN IF last.pre.session = "open"
            THEN last.reqs = <<FormatOf(last.pre.provider, sent)>>
            ELSE IF last.out.test
                 THEN last.reqs = <<FormatOf(last.pre.provider, TestMessage),
                                    FormatOf(last.pre.provider, sent)>>
                 ELSE last.reqs = <<FormatOf(last.pre.provider, TestMessage)>>
       ELSE IF sent = <<>>
            THEN last.reqs = <<>>
            ELSE last.reqs = <<FormatOf(last.pre.provider, sent)>>

C16_Witness ==
    /\ last.op = "chat_completion"
    /\ last.pre.provider = "mistral"
    /\ last.pre.session = "none"
    /\ Len(last.reqs) = 2
    /\ last.end = "ok"

\* the body of the request the last call sent for its own messages
OwnBody == last.reqs[Len(last.reqs)]

\* C17: the message list of the outgoing request has the length and the
\* order of the input; every element carries the content of the input
\* message unchanged and its role, user or assistant, unchanged, except that
\* the Gemini adapter sends the role assistant as model.
C17_MessagesKept ==
    OwnRequestSent
    => IF last.pre.provider = "gemini"
       THEN /\ Len(OwnBody.contents) = Len(sent)
            /\ \A k \in 1..Len(sent) :
                 /\ OwnBody.contents[k].parts = <<[text |-> sent[k].content]>>
                 /\ OwnBody.contents[k].role =
                        IF sent[k].role = "assistant" THEN "model"
                                                      ELSE sent[k].role
       ELSE /\ Len(OwnBody.messages) = Len(sent)
            /\ \A k \in 1..Len(sent) :
                 /\ OwnBody.messages[k].content = sent[k].content
                 /\ OwnBody.messages[k].role = sent[k].role

C17_Witness ==
    /\ OwnRequestSent
    /\ last.pre.provider = "gemini"
    /\ Len(sent) = 3
    /\ sent[2].role = "assistant"
    /\ OwnBody.contents[2].role = "model"

\* C18: close on an instance that holds a session releases it; close on an
\* instance that holds none raises nothing, sends nothing and changes
\* nothing; hence the instance is the same after one close and after many.
C18_CloseIdempotent ==
    last.op = "close"
    => /\ adapters[last.inst].session = "none"
       /\ last.pre.session = "none"
          => /\ last.end = "ok"
             /\ trace = <<>>
             /\ adapters[last.inst] = [last.pre EXCEPT !.closed = TRUE]

\* C19: validate_credentials of a local-server adapter never raises: it
\* returns True when its check succeeded and False when it failed;
\* validate_credentials of a remote-API adapter returns True or raises an
\* APIError, it never returns False and raises no other error.
C19_ValidateCredentials ==
    last.op = "validate_credentials"
    => IF last.pre.provider \in RemoteClasses
       THEN /\ \/ last.end = "ok" /\ last.arg = "True"
               \/ last.end = "APIError" /\ last.arg = "None"
            /\ ~last.out.post => last.end = "APIError"
            /\ (last.pre.session = "none" /\ ~last.out.test)
               => last.end = "APIError"
       ELSE /\ last.end = "ok"
            /\ last.arg \in {"True", "False"}
            /\ (last.arg = "True")
               <=> (/\ Has(trace, "initialize")
                    /\ last.out.probe
                    /\ last.pre.provider = "ollama" => last.out.show)

C19_Witness ==
    /\ last.op = "validate_credentials"
    /\ last.pre.provider = "gemini"
    /\ last.pre.session = "none"
    /\ ~last.out.test
    /\ ~last.out.sclose
    /\ last.end = "APIError"

\* the config lacks what its kind requires: the credential of a remote-API
\* config, the endpoint of a local-server config
LacksRequired(config) ==
    \/ config.type = "api" /\ config.api_key = ""
    \/ config.type = "local" /\ config.base_url = ""

\* C20: constructing MistralProvider or GeminiProvider with a config tagged
\* for another provider, or any adapter class with a config that lacks the
\* credential or endpoint required, ends with a ValidationError: there is no
\* instance, no session was opened and nothing was sent. Any other
\* construction yields an instance without session.
C20_ConstructionValidates ==
    last.op = "construct"
    => IF \/ last.arg \in RemoteClasses /\ last.config.provider # last.arg
          \/ LacksRequired(last.config)
       THEN /\ last.end = "ValidationError"
            /\ adapters = <<>>
            /\ trace = <<>>
       ELSE /\ last.end = "ok"
            /\ adapters = <<NewAdapter(last.arg)>>
            /\ trace = <<>>

C20_Witness ==
    /\ last.op = "construct"
    /\ last.arg = "ollama"
    /\ last.config.type = "local"
    /\ last.config.base_url = ""
    /\ last.end = "ValidationError"
    /\ adapters = <<>>

\* C21: an instance that was constructed carries what its class needs: a
\* MistralProvider or GeminiProvider a credential that is not empty, an
\* LMStudioProvider or OllamaProvider an endpoint that is not empty.
C21_ConstructedCarriesRequired ==
    (last.op = "construct" /\ last.end = "ok")
    => IF last.arg \in RemoteClasses
       THEN last.config.api_key # ""
       ELSE last.config.base_url # ""

\* C22: for every adapter variant, chat_completion(messages, stream=True)
\* that returns, returns a sequence of fragments (a generator) and not one
\* string.
C22_StreamReturnsSequence ==
    (last.op = "chat_completion_stream" /\ last.end = "ok")
    => last.arg = "generator"

\* the text fragment a line carries at the documented path of the class of
\* instance i, as a sequence: empty for a line that carries none
FragmentOf(i, line) ==
    IF line.kind # "object"
    THEN <<>>
    ELSE IF adapters[i].provider = "mistral"
    THEN IF /\ "choices" \in DOMAIN line.doc
            /\ Len(line.doc.choices) >= 1
         THEN <<line.doc.choices[1].delta.content>>
         ELSE <<>>
    ELSE IF /\ "candidates" \in DOMAIN line.doc
            /\ Len(line.doc.candidates) >= 1
         THEN <<line.doc.candidates[1].content.parts[1].text>>
         ELSE <<>>

RECURSIVE FragmentsOf(_, _, _)
FragmentsOf(i, lines, k) ==
    IF k > Len(lines)
    THEN <<>>
    ELSE FragmentOf(i, lines[k]) \o FragmentsOf(i, lines, k + 1)

\* C23: a generator that has read the lines of a 200 answer (it ran on an
\* instance with a session) has produced the fragments of all the lines
\* that carry one, in their order, and has ended without an error, whatever
\* the other lines are.
C23_MalformedLineNeverAborts ==
    (last.op = "consume" /\ last.lines # <<>> /\ last.pre.session # "none")
    => /\ last.end = "ok"
       /\ last.frags = FragmentsOf(last.inst, last.lines, 1)

\* C30: chat_completion(messages, stream=True) on a Mistral or Gemini
\* instance that holds a session returns the generator and has sent
\* nothing; the generator, first consumed on an instance with a session,
\* sends the one request of the call, and an answer that is not 200 ends
\* it with APIError and no fragment; first consumed on an instance that
\* holds no session any more, it ends with APIError, no fragment and no
\* request.
C30_StreamIsLazy ==
    /\ (/\ last.op = "chat_completion_stream"
        /\ last.pre.provider \in RemoteClasses
        /\ last.pre.session # "none")
       => /\ last.end = "ok" /\ last.arg = "generator"
          /\ last.reqs = <<>> /\ trace = <<>>
          /\ gen.state = "pending"
    /\ (last.op = "consume" /\ last.pre.session # "none")
       => /\ last.reqs = <<stream_params(last.pre, sent)>>
          /\ last.arg # "200" => (last.end = "APIError" /\ last.frags = <<>>)
    /\ (last.op = "consume" /\ last.pre.session = "none")
       => /\ last.end = "APIError"
          /\ last.frags = <<>>
          /\ last.reqs = <<>>
          /\ trace = <<>>

\* a generator is consumed on an instance that was closed and holds no
\* session, against a 200 answer whose body carries a fragment
C30_Witness ==
    /\ last.op = "consume"
    /\ last.pre.closed /\ last.pre.session = "none"
    /\ last.arg = "200"
    /\ \E k \in 1..Len(last.lines) : FragmentOf(last.inst, last.lines[k]) # <<>>
    /\ last.end = "APIError"

\* C25: models.json never holds a non-empty credential, for any provider.
C25_NoCredentialInFile ==
    \A p \in ProviderType : models[p] = NoConfig \/ models[p].api_key = ""

\* C24: get_model_config(p) right after save_model_config(config) with
\* config.provider = p gives a config equal to the saved one in name,
\* provider, kind, endpoint and parameters, and whose credential is what
\* get_api_key(p) gives.
C24_RoundTrip ==
    (last.op = "get_model_config" /\ last.saved # NoConfig)
    => /\ last.end = "ok"
       /\ last.config.name = last.saved.name
       /\ last.config.provider = last.saved.provider
       /\ last.config.type = last.saved.type
       /\ last.config.base_url = last.saved.base_url
       /\ last.config.parameters = last.saved.parameters
       /\ last.config.api_key = get_api_key(last.arg)

\* C28: once the secret store holds a key for a remote-API provider,
\* get_model_config of that provider gives a config with that key, whatever
\* was written to models.json before.
C28_LatestKeyWins ==
    (/\ last.op = "get_model_config"
     /\ last.arg \in RemoteClasses
     /\ get_api_key(last.arg) # "")
    => last.config.api_key = get_api_key(last.arg)

\* how many times name is in list
Count(name, list) == Cardinality({k \in 1..Len(list) : list[k] = name})

\* C26: for a 200 answer with a models list, get_ollama_models returns the
\* names of the list, each as many times as it is listed, in ascending
\* order (of code points, as sorted() compares strings).
C26_ListingSorted ==
    (listing.done /\ listing.tags.status = "200" /\ listing.tags.has_models)
    => /\ Len(listing.names) = Len(listing.tags.models)
       /\ \A name \in ModelNames :
            Count(name, listing.names)
              = Count([name |-> name], listing.tags.models)
       /\ \A k \in 1..Len(listing.names) - 1 :
            ~Precedes(CodePoints[listing.names[k + 1]],
                      CodePoints[listing.names[k]])

\* a list with a name twice and out of order was sorted
C26_Witness ==
    /\ listing.done
    /\ listing.tags.models = <<[name |-> "b"], [name |-> "a"], [name |-> "b"]>>
    /\ listing.names = <<"a", "b", "b">>

\* C27: an initialize that fails, fails with APIError and leaves the
\* instance without a session.
C27_FailedInitializeIsClean ==
    (last.op = "initialize" /\ last.end # "ok")
    => /\ last.end = "APIError"
       /\ adapters[last.inst].session = "none"

\* C29: while deepseek, which has neither adapter nor default config, is
\* selected, a send constructs nothing, calls no adapter, sends no request
\* and leaves no current adapter; it ends without raising and without a
\* reply, the conversation longer by the user message only.
C29_UnsupportedProviderSend ==
    (last.op = "send" /\ selected_provider = "deepseek")
    => /\ current_provider = NoProvider
       /\ last.constructs = 0
       /\ last.chats = 0
       /\ trace = <<>>
       /\ sent = <<>>
       /\ response = "None"
       /\ last.end \in {"running", "failed"}
       /\ pc = "idle"
          => /\ last.end = "failed"
             /\ messages = Append(last.hist,
                                  [role |-> "user", content |-> last.arg])

\* deepseek was selected and a send has ended
C29_Witness ==
    /\ selected_provider = "deepseek"
    /\ last.op = "send"
    /\ pc = "idle"
    /\ last.end = "failed"
    /\ Len(messages) = Len(last.hist) + 1

====
